---------------------------- MODULE Spec2Model ----------------------------
(***************************************************************************)
(* Model of the module host of the Physics & Math Explorer MVP:            *)
(*   ModuleHost (module_host.py), ParamPanel (panels/params_panel.py),     *)
(*   ViewerWidget (viewer.py), MainWindow (main_window.py) and             *)
(*   LinearTransform2DModule (modules/linear_transform_2d/module.py).      *)
(*                                                                         *)
(* Numbers.  The spin boxes of the form are fixed-point (setDecimals); the *)
(* model keeps every float of a parameter as an integer count of 1/Scale,  *)
(* every single-step of a float control as a count of 1/StepScale, and the *)
(* interpolated matrix A_t as a count of 1/(Scale*Scale).  Coordinates of  *)
(* points are integers that are multiples of Scale*Scale, so applying A_t  *)
(* is exact.  An optional field (None in Python) is the empty sequence,    *)
(* a given one is <<x>>.                                                   *)
(***************************************************************************)
EXTENDS Integers, Sequences, FiniteSets, TLC

VARIABLES
    pc,         \* position of the UI thread inside activate_module, or "idle"
    pending,    \* the module_id argument of the running activate_module call
    tdRaised,   \* the running call's teardown raised (the finally block is next)
    exc,        \* how the last activate_module call ended: "none" or the exception
    closed,     \* the main window was closed
    active,     \* ModuleHost._active: index into mods, 0 for None
    mods,       \* every module instance the host constructed, in order
    meshes,     \* plotter: actor id -> points of its polydata
    bounds,     \* plotter: the bounds grid (show_grid) is displayed
    gridShown,  \* ViewerWidget._grid_shown
    nextActor,  \* identity of the next actor add_mesh creates
    schema,     \* ParamPanel._schema
    widgets,    \* ParamPanel._widgets: name -> control(s)
    log,        \* calls made by the handler that ran last, in order
    updLog,     \* the params of the "update" entries of log, in order
    ntfLog,     \* the mappings of the "notify" entries of log, in order
    edits,      \* number of user edits so far
    mayRaise    \* the active module's teardown can raise (fault injection)

vars == <<pc, pending, tdRaised, exc, closed, active, mods, meshes, bounds,
          gridShown, nextActor, schema, widgets, log, updLog, ntfLog, edits,
          mayRaise>>

-----------------------------------------------------------------------------
(* Bounds of the model *)

MaxInstances == 2
MaxEdits == 2

(* Fixed-point resolutions *)
Scale == 10
StepScale == 100
FP == Scale * Scale

None == <<>>
Some(x) == <<x>>
IsNone(o) == Len(o) = 0
Val(o) == o[1]

Min2(a, b) == IF a < b THEN a ELSE b
Max2(a, b) == IF a < b THEN b ELSE a

-----------------------------------------------------------------------------
(* Geometry helpers of the linear-transform module *)

\* _unit_circle: samples of the unit circle, first = last (endpoint=True).
\* The 128 samples of the code are irrational; the model keeps the 13 samples
\* with rational coordinates k/5, as multiples of FP.
UnitCircle ==
    LET raw == << <<5, 0>>, <<4, 3>>, <<3, 4>>, <<0, 5>>, <<-3, 4>>, <<-4, 3>>,
                  <<-5, 0>>, <<-4, -3>>, <<-3, -4>>, <<0, -5>>, <<3, -4>>,
                  <<4, -3>>, <<5, 0>> >>
    IN [i \in 1..Len(raw) |-> <<raw[i][1] * FP, raw[i][2] * FP, 0>>]

\* np.linspace(-extent, extent, n) with extent = 1, as numerators over n-1
\* (n = 1 gives the single value -1), multiplied by FP.
Linspace(n) ==
    [i \in 1..n |-> IF n = 1 THEN -FP ELSE (2 * (i - 1) - (n - 1)) * FP]

\* _grid_lines: n lines of constant x, then n lines of constant y.
GridLines(n) ==
    LET xs == Linspace(n)
        ys == Linspace(n)
    IN [k \in 1..(2 * n) |->
          IF k <= n
          THEN [j \in 1..n |-> <<xs[k], ys[j], 0>>]
          ELSE [j \in 1..n |-> <<xs[j], ys[k - n], 0>>]]

\* At = (1.0 - t) * np.eye(2) + t * A, in units of 1/FP.
Eye2 == << <<1, 0>>, <<0, 1>> >>
InterpSwapped(A, t) ==
    [i \in 1..2 |-> [j \in 1..2 |-> t * Scale * Eye2[i][j] + (Scale - t) * A[i][j]]]
Interp(A, t) ==
    [i \in 1..2 |-> [j \in 1..2 |-> (Scale - t) * Scale * Eye2[i][j] + t * A[i][j]]]

\* base[:, :2] @ At.T, then a zero z column.
Apply(At, p) ==
    <<(p[1] * At[1][1] + p[2] * At[1][2]) \div FP,
      (p[1] * At[2][1] + p[2] * At[2][2]) \div FP,
      0>>
Transform(At, pts) == [i \in 1..Len(pts) |-> Apply(At, pts[i])]

\* np.linalg.eig of a real 2x2 matrix: the eigenvalues are real exactly when
\* the discriminant (a-d)^2 + 4bc is >= 0.  A negative discriminant gives a
\* conjugate pair with |imag| = sqrt(-disc)/2 >= 1/(2*FP), far above the 1e-8
\* tolerance of the code, so the tolerance test is the sign test here.
Disc(M) == (M[1][1] - M[2][2]) * (M[1][1] - M[2][2]) + 4 * M[1][2] * M[2][1]
EigAlwaysReal(M, i) == TRUE
EigIsReal(M, i) == Disc(M) >= 0


-----------------------------------------------------------------------------
(* The world the nested calls of one handler act on.  An action reads it    *)
(* from the variables, threads it through the calls and commits the result. *)

World ==
    [mods |-> mods, active |-> active, meshes |-> meshes, bounds |-> bounds,
     next |-> nextActor, schema |-> schema,
     widgets |-> widgets, log |-> log, updLog |-> updLog, ntfLog |-> ntfLog]

Logged(W, ev) == [W EXCEPT !.log = Append(@, ev)]

\* The handler that starts now has made no call yet.
Fresh(W) == [W EXCEPT !.log = <<>>, !.updLog = <<>>, !.ntfLog = <<>>]

Get(params, k, dflt) == IF k \in DOMAIN params THEN params[k] ELSE dflt

-----------------------------------------------------------------------------
(* pyvista plotter *)

\* plotter.add_mesh for each polyline of ptsSeq: the new actors get the ids
\* W.next, W.next + 1, ...
AddMeshes(W, ptsSeq) ==
    LET new == W.next .. (W.next + Len(ptsSeq) - 1)
    IN [W EXCEPT
          !.meshes = [a \in DOMAIN W.meshes \cup new |->
                         IF a \in new THEN ptsSeq[a - W.next + 1] ELSE W.meshes[a]],
          !.next = W.next + Len(ptsSeq)]

NewIds(W, n) == [k \in 1..n |-> W.next + k - 1]

\* plotter.remove_actor for each of the given actors (a failure is ignored).
RemoveActors(W, ids) ==
    [W EXCEPT !.meshes = [a \in DOMAIN W.meshes \ ids |-> W.meshes[a]]]

\* poly.points = pts on the polydata of an actor the plotter shows.
SetPoints(W, a, pts) ==
    IF a \in DOMAIN W.meshes THEN [W EXCEPT !.meshes[a] = pts] ELSE W

Range(s) == {s[i] : i \in DOMAIN s}

-----------------------------------------------------------------------------
(* LinearTransform2DModule *)

AllKeys == {"circle", "grid", "eig1", "eig2"}

\* __init__: no viewer, empty _actors and _geoms_base.  state, setups,
\* teardowns and badUpdate (an update received before setup or after teardown)
\* record the lifecycle calls the instance received; retired holds the grid
\* actors that _rebuild_grid replaced.  eigDrawn lists, in drawing order, the
\* actors the latest _update_eigenvectors call added, and eigRetired holds the
\* eigenvector actors that earlier calls added.
NewModule ==
    [viewer |-> FALSE,
     akeys |-> {}, circle |-> 0, grid |-> <<>>, eig1 |-> 0, eig2 |-> 0,
     gkeys |-> {}, bcircle |-> <<>>, bgrid |-> <<>>,
     state |-> "new", setups |-> 0, teardowns |-> 0, badUpdate |-> FALSE,
     retired |-> {}, eigDrawn |-> <<>>, eigRetired |-> {}]

\* param_schema of the linear-transform module.
LinearTransformSchema ==
    << [name |-> "A", kind |-> "matrix2x2",
        default |-> << <<Scale, 0>>, <<0, Scale>> >>,
        min |-> Some(-5 * Scale), max |-> Some(5 * Scale), step |-> Some(10),
        options |-> <<>>],
       [name |-> "grid_n", kind |-> "int", default |-> 10,
        min |-> Some(4), max |-> Some(40), step |-> Some(1), options |-> <<>>],
       [name |-> "animate_t", kind |-> "float", default |-> Scale,
        min |-> Some(0), max |-> Some(Scale), step |-> Some(1), options |-> <<>>],
       [name |-> "show_eigen", kind |-> "bool", default |-> TRUE,
        min |-> None, max |-> None, step |-> None, options |-> <<>>] >>

\* setup(viewer)
ModuleSetup(W) ==
    LET i == W.active
        circle == UnitCircle
        grid == GridLines(10)
        W1 == AddMeshes([W EXCEPT !.bounds = TRUE], <<circle>>)
        W2 == AddMeshes(W1, grid)
    IN [Logged(W2, "setup") EXCEPT
          !.mods[i].viewer = TRUE,
          !.mods[i].gkeys = {"circle", "grid"},
          !.mods[i].bcircle = circle,
          !.mods[i].bgrid = grid,
          !.mods[i].akeys = AllKeys,
          !.mods[i].circle = W.next,
          !.mods[i].grid = NewIds(W1, Len(grid)),
          !.mods[i].eig1 = 0,
          !.mods[i].eig2 = 0,
          !.mods[i].state = "setup",
          !.mods[i].setups = @ + 1]

RebuildGridKeepsOld(W, n) ==
    LET i == W.active
        old == IF "grid" \in W.mods[i].akeys THEN Range(W.mods[i].grid) ELSE {}
        lines == GridLines(n)
        W2 == AddMeshes(W, lines)
    IN [W2 EXCEPT
          !.mods[i].gkeys = @ \cup {"grid"},
          !.mods[i].bgrid = lines,
          !.mods[i].retired = @ \cup old,
          !.mods[i].akeys = @ \cup {"grid"},
          !.mods[i].grid = NewIds(W, Len(lines))]
\* _rebuild_grid(n)
RebuildGrid(W, n) ==
    LET i == W.active
        old == IF "grid" \in W.mods[i].akeys THEN Range(W.mods[i].grid) ELSE {}
        W1 == RemoveActors(W, old)
        lines == GridLines(n)
        W2 == AddMeshes(W1, lines)
    IN [W2 EXCEPT
          !.mods[i].gkeys = @ \cup {"grid"},
          !.mods[i].bgrid = lines,
          !.mods[i].retired = @ \cup old,
          !.mods[i].akeys = @ \cup {"grid"},
          !.mods[i].grid = NewIds(W1, Len(lines))]

\* One pass of the drawing loop of _update_eigenvectors for eigenpair k; the
\* direction of the drawn segment is not modelled, only the actor.
DrawEigen(W, At, k, drawn) ==
    IF EigIsReal(At, k)
    THEN LET i == W.active
             W1 == AddMeshes(W, << << <<0, 0, 0>> >> >>)
         IN [W1 EXCEPT
               !.mods[i].akeys = @ \cup {IF drawn = 0 THEN "eig1" ELSE "eig2"},
               !.mods[i].eigDrawn = Append(@, W.next),
               !.mods[i].eig1 = IF drawn = 0 THEN W.next ELSE @,
               !.mods[i].eig2 = IF drawn = 0 THEN @ ELSE W.next]
    ELSE W

\* _update_eigenvectors without the removal of the actors stored under eig1
\* and eig2: the keys are reset and the new actors drawn over the old ones.
UpdateEigenvectorsKeepsOld(W, At, show) ==
    LET i == W.active
        m == W.mods[i]
        W1 == [W EXCEPT !.mods[i].eig1 = 0, !.mods[i].eig2 = 0,
                        !.mods[i].eigRetired = @ \cup Range(m.eigDrawn),
                        !.mods[i].eigDrawn = <<>>]
        W2 == DrawEigen(W1, At, 1, 0)
        d1 == IF EigIsReal(At, 1) THEN 1 ELSE 0
        W3 == DrawEigen(W2, At, 2, d1)
    IN IF show THEN W3 ELSE W1

\* _update_eigenvectors(At, show)
UpdateEigenvectors(W, At, show) ==
    LET i == W.active
        m == W.mods[i]
        old == {a \in {m.eig1, m.eig2} : a # 0}
        W1 == [RemoveActors(W, old) EXCEPT
                 !.mods[i].eig1 = 0, !.mods[i].eig2 = 0,
                 !.mods[i].eigRetired = @ \cup Range(m.eigDrawn),
                 !.mods[i].eigDrawn = <<>>]
        W2 == DrawEigen(W1, At, 1, 0)
        d1 == IF EigIsReal(At, 1) THEN 1 ELSE 0
        W3 == DrawEigen(W2, At, 2, d1)
    IN IF show THEN W3 ELSE W1

\* the zip loop of update: the points of the first n (base line, actor)
\* pairs are rewritten; the actors of one grid are distinct.
WriteGrid(W, At, n) ==
    LET m == W.mods[W.active]
        idx(a) == CHOOSE k \in 1..n : m.grid[k] = a
    IN [W EXCEPT !.meshes =
          [a \in DOMAIN W.meshes |->
             IF \E k \in 1..n : m.grid[k] = a
             THEN Transform(At, m.bgrid[idx(a)])
             ELSE W.meshes[a]]]

\* update(params)
ModuleUpdate(W, params) ==
    LET i == W.active
        W0 == [Logged(W, "update") EXCEPT
                 !.updLog = Append(@, params),
                 !.mods[i].badUpdate = @ \/ W.mods[i].state # "setup"]
        A == Get(params, "A", << <<Scale, 0>>, <<0, Scale>> >>)
        t == Get(params, "animate_t", Scale)
        grid_n == Get(params, "grid_n", 10)
        show_eigen == Get(params, "show_eigen", TRUE)
        W1 == IF "grid" \in W0.mods[i].gkeys /\ Len(W0.mods[i].bgrid) # 2 * grid_n
              THEN RebuildGrid(W0, grid_n)
              ELSE W0
        At == Interp(A, t)
        m1 == W1.mods[i]
        W2 == SetPoints(W1, m1.circle, Transform(At, m1.bcircle))
        nz == IF "grid" \in m1.gkeys /\ "grid" \in m1.akeys
              THEN Min2(Len(m1.bgrid), Len(m1.grid)) ELSE 0
        W3 == WriteGrid(W2, At, nz)
    IN IF ~W.mods[i].viewer THEN W0
       ELSE IF "circle" \notin m1.gkeys THEN W1    \* KeyError: nothing is written
       ELSE UpdateEigenvectors(W3, At, show_eigen)

\* teardown()
ModuleTeardown(W) ==
    LET i == W.active
    IN [Logged(W, "teardown") EXCEPT
          !.mods[i].akeys = {}, !.mods[i].circle = 0, !.mods[i].grid = <<>>,
          !.mods[i].eig1 = 0, !.mods[i].eig2 = 0,
          !.mods[i].gkeys = {}, !.mods[i].bcircle = <<>>, !.mods[i].bgrid = <<>>,
          !.mods[i].state = "torn", !.mods[i].teardowns = @ + 1]

\* a teardown that raises before it released anything
ModuleTeardownRaises(W) == Logged(W, "teardown_raised")

-----------------------------------------------------------------------------
(* ViewerWidget *)

\* render()
ViewerRender(W) == Logged(W, "render")

ViewerClearKeepsActors(W) == ViewerRender([Logged(W, "clear") EXCEPT !.bounds = gridShown])
\* clear(): plotter.clear() removes every actor, the bounds grid is shown
\* again when _grid_shown, render.  (The orientation axes widget holds no
\* mesh actor and is left out of the model.)
ViewerClear(W) ==
    ViewerRender([Logged(W, "clear") EXCEPT !.meshes = << >>, !.bounds = gridShown])

-----------------------------------------------------------------------------
(* Qt spin boxes.  A control is [min, max, step, value].                    *)

\* QSpinBox(): range 0..99, step 1.  QDoubleSpinBox(): range 0..99.99 (kept
\* as 99.9), step 1.0.
NewSpin(kind) ==
    IF kind = "int"
    THEN [min |-> 0, max |-> 99, step |-> 1, value |-> 0]
    ELSE [min |-> 0, max |-> 999, step |-> StepScale, value |-> 0]

Clamp(v, lo, hi) == Max2(lo, Min2(v, hi))

\* setRange(lo, hi): a maximum below the minimum becomes the minimum, and the
\* value is brought into the range.
SpinSetRange(c, lo, hi) ==
    LET hi2 == Max2(lo, hi)
    IN [c EXCEPT !.min = lo, !.max = hi2, !.value = Clamp(c.value, lo, hi2)]
SpinSetMinimum(c, lo) == SpinSetRange(c, lo, Max2(lo, c.max))
SpinSetMaximum(c, hi) == SpinSetRange(c, Min2(c.min, hi), hi)
\* setSingleStep(s): Qt ignores a negative step.
SpinSetSingleStep(c, s) == IF s >= 0 THEN [c EXCEPT !.step = s] ELSE c
\* setValue(v): the value is bounded by the range.
SpinSetValue(c, v) == [c EXCEPT !.value = Clamp(v, c.min, c.max)]

\* Python's `x or dflt` on an optional number: None and 0 are both falsy.
OrElse(o, dflt) == IF IsNone(o) \/ Val(o) = 0 THEN dflt ELSE Val(o)

-----------------------------------------------------------------------------
(* ModuleHost slot and ParamPanel *)

\* ModuleHost._on_params_changed(params)
HostOnParamsChanged(W, params) ==
    IF W.active = 0 THEN W ELSE ViewerRender(ModuleUpdate(W, params))

Kinds == {"float", "int", "bool", "enum", "matrix2x2"}

SpecOf(sch, n) == sch[CHOOSE k \in DOMAIN sch : sch[k].name = n]

ReadWidget(spec, w) ==
    CASE spec.kind \in {"float", "int"} -> w.value
      [] spec.kind = "bool" -> w.checked
      [] spec.kind = "enum" -> w.text
      [] spec.kind = "matrix2x2" ->
            << <<w[1].value, w[2].value>>, <<w[3].value, w[4].value>> >>

\* current_params(): ok is FALSE when reading a control raises, which is when
\* a spec of the schema has no registered widget (self._widgets.get gives None).
CurrentParams(sch, wid) ==
    LET names == {sch[k].name : k \in {j \in DOMAIN sch : sch[j].kind \in Kinds}}
    IN IF \E n \in names : n \notin DOMAIN wid
       THEN [ok |-> FALSE, params |-> << >>]
       ELSE [ok |-> TRUE,
             params |-> [n \in names |-> ReadWidget(SpecOf(sch, n), wid[n])]]

\* _emit_params(): paramsChanged.emit(current_params()); the host's slot runs
\* inside the emit.  An exception of current_params ends the slot, nothing is
\* emitted.
PanelEmitParams(W) ==
    LET cp == CurrentParams(W.schema, W.widgets)
    IN IF cp.ok
       THEN HostOnParamsChanged(
              [Logged(W, "notify") EXCEPT !.ntfLog = Append(@, cp.params)],
              cp.params)
       ELSE Logged(W, "slot_error")

\* A value-change signal of a connected control: the connected slot is
\* _emit_params.  An exception raised in the slot does not reach the code
\* that changed the value.
Signal(W) == PanelEmitParams(Logged(W, "signal"))

Register(W, name, ctl) ==
    [W EXCEPT !.widgets = [n \in DOMAIN W.widgets \cup {name} |->
                              IF n = name THEN ctl ELSE W.widgets[n]]]

BuildSpinNoDefault(spec) ==
    LET c0 == NewSpin(spec.kind)
        c1 == IF IsNone(spec.min) THEN c0 ELSE SpinSetMinimum(c0, Val(spec.min))
        c2 == IF IsNone(spec.max) THEN c1 ELSE SpinSetMaximum(c1, Val(spec.max))
    IN IF IsNone(spec.step) THEN c2 ELSE SpinSetSingleStep(c2, Val(spec.step))
\* float / int branch: the default is written before valueChanged is connected.
BuildSpin(spec) ==
    LET c0 == NewSpin(spec.kind)
        c1 == IF IsNone(spec.min) THEN c0 ELSE SpinSetMinimum(c0, Val(spec.min))
        c2 == IF IsNone(spec.max) THEN c1 ELSE SpinSetMaximum(c1, Val(spec.max))
        c3 == IF IsNone(spec.step) THEN c2 ELSE SpinSetSingleStep(c2, Val(spec.step))
    IN SpinSetValue(c3, spec.default)

\* enum branch
BuildCombo(spec) ==
    [items |-> spec.options,
     text |-> IF spec.default \in Range(spec.options) THEN spec.default
              ELSE IF Len(spec.options) > 0 THEN spec.options[1] ELSE ""]

\* one of the four spin boxes of the matrix2x2 branch, before the defaults
BuildMatrixSpin(spec) ==
    SpinSetSingleStep(
      SpinSetRange(NewSpin("float"), OrElse(spec.min, -1000000 * Scale),
                   OrElse(spec.max, 1000000 * Scale)),
      OrElse(spec.step, 10))

RECURSIVE MatrixDefaults(_, _, _, _)
\* a11.setValue(..); a12.setValue(..); a21.setValue(..); a22.setValue(..):
\* the four boxes are connected already, so each change of value signals.
\* Gives the world after the signals of boxes k..4; the boxes are not in
\* self._widgets yet.
MatrixDefaults(W, sb, d, k) ==
    IF k > 4 THEN W
    ELSE LET new == SpinSetValue(sb, d[(k + 1) \div 2][2 - (k % 2)])
         IN MatrixDefaults(IF new.value # sb.value THEN Signal(W) ELSE W, sb, d, k + 1)

BuildMatrix(W, spec) ==
    LET sb == BuildMatrixSpin(spec)
        d == IF Len(spec.default) = 0 THEN << <<Scale, 0>>, <<0, Scale>> >>
             ELSE spec.default
        W1 == MatrixDefaults(W, sb, d, 1)
    IN Register(W1, spec.name,
                [k \in 1..4 |-> SpinSetValue(sb, d[(k + 1) \div 2][2 - (k % 2)])])

\* one pass of the loop over the schema
BuildSpec(W, spec) ==
    CASE spec.kind \in {"float", "int"} -> Register(W, spec.name, BuildSpin(spec))
      [] spec.kind = "bool" -> Register(W, spec.name, [checked |-> spec.default])
      [] spec.kind = "enum" -> Register(W, spec.name, BuildCombo(spec))
      [] spec.kind = "matrix2x2" -> BuildMatrix(W, spec)
      [] OTHER -> W

RECURSIVE BuildLoop(_, _)
BuildLoop(W, k) ==
    IF k > Len(W.schema) THEN W ELSE BuildLoop(BuildSpec(W, W.schema[k]), k + 1)

\* build_from_schema(schema): clear, rebuild, initial emit
PanelBuildFromSchema(W, sch) ==
    LET W0 == [Logged(W, "build") EXCEPT !.widgets = << >>, !.schema = sch]
    IN PanelEmitParams(Logged(BuildLoop(W0, 1), "initial_emit"))

\* The user edits a spin box (box k of a matrix): the value is bounded, and a
\* change of value signals.
WithWidget(W, name, ctl) == [W EXCEPT !.widgets[name] = ctl]
EditSpin(W, name, k, v) ==
    LET spec == SpecOf(W.schema, name)
        old == IF spec.kind = "matrix2x2" THEN W.widgets[name][k] ELSE W.widgets[name]
        new == SpinSetValue(old, v)
        ctl == IF spec.kind = "matrix2x2"
               THEN [W.widgets[name] EXCEPT ![k] = new] ELSE new
    IN IF new.value = old.value THEN W ELSE Signal(WithWidget(W, name, ctl))
\* The user toggles a check box.
EditCheck(W, name) ==
    Signal(WithWidget(W, name, [checked |-> ~W.widgets[name].checked]))
\* The user picks an item of a combo box.
EditCombo(W, name, item) ==
    IF item = W.widgets[name].text THEN W
    ELSE Signal(WithWidget(W, name, [W.widgets[name] EXCEPT !.text = item]))

-----------------------------------------------------------------------------
(* State machine *)

\* ModuleHost._registry
Registry == {"linear_transform_2d"}
\* ids a caller may pass to activate_module
ModuleIds == {"linear_transform_2d", "no_such_module"}

\* what the user types into a float box, an int box (before the box bounds it)
TypedFloats == {0, 2 * Scale}
TypedInts == {3, 12}

Commit(W) ==
    /\ mods' = W.mods
    /\ active' = W.active
    /\ meshes' = W.meshes
    /\ bounds' = W.bounds
    /\ nextActor' = W.next
    /\ schema' = W.schema
    /\ widgets' = W.widgets
    /\ log' = W.log
    /\ updLog' = W.updLog
    /\ ntfLog' = W.ntfLog

\* MainWindow.__init__ up to its last statement: viewer (bounds grid shown),
\* empty panel, host with no active module; host.activate_module of the demo
\* module is about to run.
InitWith(p, fault) ==
    /\ pc = p
    /\ pending = "linear_transform_2d"
    /\ tdRaised = FALSE
    /\ exc = "none"
    /\ closed = FALSE
    /\ active = 0
    /\ mods = << >>
    /\ meshes = << >>
    /\ bounds = TRUE
    /\ gridShown = TRUE
    /\ nextActor = 1
    /\ schema = << >>
    /\ widgets = << >>
    /\ log = <<"activate">>
    /\ updLog = << >>
    /\ ntfLog = << >>
    /\ edits = 0
    /\ mayRaise = fault

Init == InitWith("lookup", FALSE)

Idle == pc = "idle" /\ ~closed

\* activate_module(module_id) is called: line 29
Activate ==
    /\ Idle
    /\ \E id \in ModuleIds :
         /\ id \in Registry => Len(mods) < MaxInstances
         /\ pending' = id
    /\ pc' = IF active # 0 THEN "teardown" ELSE "lookup"
    /\ exc' = "none"
    /\ tdRaised' = FALSE
    /\ Commit(Logged(Fresh(World), "activate"))
    /\ UNCHANGED <<closed, gridShown, edits, mayRaise>>

\* line 31: self._active.teardown()
StepTeardown ==
    /\ pc = "teardown"
    /\ \E r \in (IF mayRaise THEN BOOLEAN ELSE {FALSE}) :
         /\ tdRaised' = r
         /\ Commit(IF r THEN ModuleTeardownRaises(World) ELSE ModuleTeardown(World))
    /\ pc' = "finally"
    /\ UNCHANGED <<pending, exc, closed, gridShown, edits, mayRaise>>

\* lines 32-34: the finally block, then the exception of teardown (if any)
\* leaves activate_module
FinallyNoClear(W) == [W EXCEPT !.active = 0]
FinallyKeepsActive(W) == ViewerClear(W)
FinallyBlock(W) == [ViewerClear(W) EXCEPT !.active = 0]
StepFinally ==
    /\ pc = "finally"
    /\ Commit(FinallyBlock(World))
    /\ pc' = IF tdRaised THEN "idle" ELSE "lookup"
    /\ exc' = IF tdRaised THEN "TeardownError" ELSE exc
    /\ UNCHANGED <<pending, tdRaised, closed, gridShown, edits, mayRaise>>

\* lines 36-40: registry lookup, KeyError or construction
Construct(W) ==
    [W EXCEPT !.mods = Append(@, NewModule), !.active = Len(W.mods) + 1]
LookupAny(id) == TRUE
Lookup(id) == id \in Registry
StepLookup ==
    /\ pc = "lookup"
    /\ IF Lookup(pending)
       THEN /\ Commit(Logged(Construct(World), "construct"))
            /\ pc' = "setup"
            /\ exc' = exc
       ELSE /\ Commit(World)
            /\ pc' = "idle"
            /\ exc' = "KeyError"
    /\ UNCHANGED <<pending, tdRaised, closed, gridShown, edits, mayRaise>>

\* line 41: self._active.setup(self.viewer)
StepSetup ==
    /\ pc = "setup"
    /\ Commit(ModuleSetup(World))
    /\ pc' = "build"
    /\ UNCHANGED <<pending, tdRaised, exc, closed, gridShown, edits, mayRaise>>

\* lines 43-44: param_panel.build_from_schema(list(param_schema()))
StepBuild ==
    /\ pc = "build"
    /\ Commit(PanelBuildFromSchema(World, LinearTransformSchema))
    /\ pc' = "prime"
    /\ UNCHANGED <<pending, tdRaised, exc, closed, gridShown, edits, mayRaise>>

\* line 47: self._active.update(self.param_panel.current_params())
Prime(W) == ModuleUpdate(W, CurrentParams(W.schema, W.widgets).params)
StepPrime ==
    /\ pc = "prime"
    /\ Commit(Prime(World))
    /\ pc' = "render"
    /\ UNCHANGED <<pending, tdRaised, exc, closed, gridShown, edits, mayRaise>>

\* line 48: self.viewer.render(); activate_module returns
StepRender ==
    /\ pc = "render"
    /\ Commit(ViewerRender(World))
    /\ pc' = "idle"
    /\ UNCHANGED <<pending, tdRaised, exc, closed, gridShown, edits, mayRaise>>

\* The user edits one control of the form.
UserEdit(W, name) ==
    LET spec == SpecOf(W.schema, name)
    IN CASE spec.kind = "float" -> {EditSpin(W, name, 1, v) : v \in TypedFloats}
         [] spec.kind = "int" -> {EditSpin(W, name, 1, v) : v \in TypedInts}
         [] spec.kind = "matrix2x2" ->
               {EditSpin(W, name, k, v) : k \in 1..4, v \in TypedFloats}
         [] spec.kind = "bool" -> {EditCheck(W, name)}
         [] spec.kind = "enum" ->
               {EditCombo(W, name, it) : it \in Range(W.widgets[name].items)}
Edit ==
    /\ Idle
    /\ edits < MaxEdits
    /\ \E name \in DOMAIN widgets : \E W \in UserEdit(Fresh(World), name) :
         /\ W.log # << >>
         /\ Commit(W)
    /\ edits' = edits + 1
    /\ UNCHANGED <<pc, pending, tdRaised, exc, closed, gridShown, mayRaise>>

\* View > Toggle Grid: set_grid_visible(checked)
ToggleGrid ==
    /\ Idle
    /\ gridShown' = ~gridShown
    /\ Commit(ViewerRender([Fresh(World) EXCEPT !.bounds = ~gridShown]))
    /\ UNCHANGED <<pc, pending, tdRaised, exc, closed, edits, mayRaise>>

\* File > Exit: QMainWindow.close; the window has no closeEvent, the host and
\* the module are not told.
Close ==
    /\ Idle
    /\ closed' = TRUE
    /\ UNCHANGED <<pc, pending, tdRaised, exc, active, mods, meshes, bounds,
                   gridShown, nextActor, schema, widgets, log, updLog, ntfLog,
                   edits, mayRaise>>

ActivateSteps ==
    \/ StepTeardown
    \/ StepFinally
    \/ StepLookup
    \/ StepSetup
    \/ StepBuild
    \/ StepPrime
    \/ StepRender

Next ==
    \/ Activate
    \/ ActivateSteps
    \/ Edit
    \/ ToggleGrid
    \/ Close

\* The application as shipped: the registry holds the linear-transform module,
\* whose teardown cannot raise.
Spec == Init /\ [][Next]_vars

\* The host with a module whose teardown may raise: activations and edits.
NextFaulty ==
    \/ Activate
    \/ ActivateSteps
    \/ Edit
InitFaulty == InitWith("lookup", TRUE)
SpecFaulty == InitFaulty /\ [][NextFaulty]_vars

-----------------------------------------------------------------------------
(* update driven directly: the slot _on_params_changed receives an arbitrary *)
(* mapping, not only one the form can produce in MaxEdits edits.            *)

MaxUpdates == 2

Rot(c, s) == << <<c, -s>>, <<s, c>> >>
\* every rotation matrix with entries that are multiples of 1/Scale
Rotations ==
    {Rot(q[1], q[2]) :
        q \in {r \in (-Scale..Scale) \X (-Scale..Scale) :
                  r[1] * r[1] + r[2] * r[2] = FP}}
TestMatrices ==
    Rotations \cup
    { << <<Scale, Scale>>, <<0, Scale>> >>,            \* shear
      << <<2 * Scale, 0>>, <<0, -Scale>> >>,           \* diagonal
      << <<5 * Scale, -5 * Scale>>, <<-5 * Scale, 5 * Scale>> >>,   \* range corners
      << <<0, 0>>, <<0, 0>> >> }
OtherMatrices == TestMatrices \ Rotations
UpdateInputs ==
    {[A |-> a, grid_n |-> 10, animate_t |-> t, show_eigen |-> TRUE] :
        a \in TestMatrices, t \in {0, Scale}}
    \cup {[A |-> a, grid_n |-> n, animate_t |-> t, show_eigen |-> e] :
        a \in OtherMatrices, n \in {4, 10}, t \in {0, 5, Scale}, e \in BOOLEAN}

SlotAny ==
    /\ Idle
    /\ active # 0
    /\ edits < MaxUpdates
    /\ \E p \in UpdateInputs : Commit(HostOnParamsChanged(Fresh(World), p))
    /\ edits' = edits + 1
    /\ UNCHANGED <<pc, pending, tdRaised, exc, closed, gridShown, mayRaise>>

\* MainWindow.__init__ activates the demo module (no module is active before),
\* then the slot is driven.
NextUpdate ==
    \/ StepLookup
    \/ StepSetup
    \/ StepBuild
    \/ StepPrime
    \/ StepRender
    \/ SlotAny

SpecUpdate == Init /\ [][NextUpdate]_vars

-----------------------------------------------------------------------------
(* The panel alone: build_from_schema on schemas other than the one of the   *)
(* registered module, no module active.                                     *)

OptNums == {None, Some(-2), Some(0), Some(3)}
OptSteps == {None, Some(0), Some(1)}
WellFormed(lo, hi) == IsNone(lo) \/ IsNone(hi) \/ Val(lo) <= Val(hi)

Bounds3 ==
    {b \in OptNums \X OptNums \X OptSteps : WellFormed(b[1], b[2])}
NumSpecs(name, kind, dflt) ==
    {[name |-> name, kind |-> kind, default |-> dflt, min |-> b[1], max |-> b[2],
      step |-> b[3], options |-> <<>>] : b \in Bounds3}

TestSpecs ==
    NumSpecs("x", "float", 1) \cup NumSpecs("k", "int", 1)
    \cup NumSpecs("M", "matrix2x2", << <<1, 0>>, <<0, 1>> >>)
    \cup {[name |-> "flag", kind |-> "bool", default |-> b, min |-> None,
           max |-> None, step |-> None, options |-> <<>>] : b \in BOOLEAN}
    \cup {[name |-> "mode", kind |-> "enum", default |-> d, min |-> None,
           max |-> None, step |-> None, options |-> <<"a", "b">>] : d \in {"b", "z"}}

TestSchemas ==
    {<<s>> : s \in TestSpecs}
    \cup {<<s, m>> : s \in {q \in NumSpecs("x", "float", 1) :
                                 IsNone(q.min) /\ IsNone(q.max) /\ IsNone(q.step)},
                     m \in {q \in NumSpecs("M", "matrix2x2", << <<1, 0>>, <<0, 1>> >>) :
                              IsNone(q.step)}}

PanelBuild ==
    /\ Idle
    /\ \E sch \in TestSchemas : Commit(PanelBuildFromSchema(Fresh(World), sch))
    /\ UNCHANGED <<pc, pending, tdRaised, exc, closed, gridShown, edits, mayRaise>>

NextPanel ==
    \/ PanelBuild
    \/ Edit

InitPanel == InitWith("idle", FALSE)
SpecPanel == InitPanel /\ [][NextPanel]_vars

-----------------------------------------------------------------------------
(* Claims *)

Has(ev) == \E i \in DOMAIN log : log[i] = ev
Count(ev) == Cardinality({i \in DOMAIN log : log[i] = ev})
Live == {i \in DOMAIN mods : mods[i].state = "setup"}

\* C1 as stated: when activate_module runs while a module is active and that
\* module's teardown raises, the failure is swallowed: the viewer is cleared,
\* the old module is no longer active, no exception reaches the caller and
\* the requested (registered) module is activated to completion.
C1_TeardownFailureSwallowed ==
    (pc = "idle" /\ Has("teardown_raised") /\ pending \in Registry) =>
        /\ Has("clear")
        /\ exc = "none"
        /\ active # 0 /\ mods[active].state = "setup"
        /\ Has("setup") /\ log[Len(log)] = "render"

\* C1 amended: when the active module's teardown raises, the finally block
\* still clears the viewer and resets the active module to None, and then the
\* exception propagates to the caller: the call ends there, no module is
\* constructed or set up and the panel is not rebuilt.
C1_TeardownFailurePropagates ==
    (Has("teardown_raised") /\ pc # "finally") =>
        /\ pc = "idle"
        /\ exc = "TeardownError"
        /\ active = 0
        /\ DOMAIN meshes = {}
        /\ Has("clear")
        /\ ~Has("construct") /\ ~Has("setup") /\ ~Has("build") /\ ~Has("update")

C1_Witness ==
    /\ pc = "idle" /\ Has("teardown_raised") /\ exc = "TeardownError"
    /\ pending \in Registry /\ Len(mods) = 1

\* C2: when activate_module runs while a module is active, the previous
\* module's teardown and the viewer clear are complete before the new
\* module's setup starts: at that moment the viewer holds no mesh actor (only
\* the bounds-grid decoration, as _grid_shown says), every earlier instance is
\* torn down, and at no time is more than one instance set up and not torn
\* down.
C2_CleanBeforeSetup ==
    /\ Cardinality(Live) <= 1
    /\ Live \subseteq {active}
    /\ pc = "setup" =>
         /\ DOMAIN meshes = {}
         /\ bounds = gridShown
         /\ Live = {}
         /\ \A i \in DOMAIN mods : i # active => mods[i].state = "torn"
         /\ Has("teardown") =>
              \E i, j, k \in DOMAIN log :
                 /\ i < j /\ j < k
                 /\ log[i] = "teardown" /\ log[j] = "clear" /\ log[k] = "construct"

C2_Witness ==
    /\ pc = "setup" /\ Len(mods) = 2 /\ Has("teardown")
    /\ mods[1].state = "torn" /\ mods[1].retired # {}

\* C4: activate_module with an id that is not in the registry raises
\* KeyError, whether or not a module was active before; that call constructs
\* no module, runs no setup and no update, and does not rebuild the panel.
C4_UnknownIdKeyError ==
    (Has("activate") /\ pending \notin Registry) =>
        /\ ~Has("construct") /\ ~Has("setup") /\ ~Has("update") /\ ~Has("build")
        /\ pc = "idle" => (exc = "KeyError" /\ active = 0)
        /\ pc # "idle" => exc = "none"

C4_Witness ==
    /\ pc = "idle" /\ exc = "KeyError" /\ Has("activate") /\ Has("teardown")
    /\ Len(mods) = 1 /\ schema = LinearTransformSchema

LifecycleOrder ==
    \A i \in DOMAIN mods :
        /\ mods[i].setups <= 1
        /\ mods[i].state # "new" => mods[i].setups = 1
        /\ ~mods[i].badUpdate
        /\ mods[i].teardowns <= 1
TornWhenReplaced ==
    \A i \in DOMAIN mods :
        /\ i # active => mods[i].state = "torn"
        /\ i = active =>
             mods[i].state = (CASE pc = "setup" -> "new"
                                [] pc = "finally" -> "torn"
                                [] OTHER -> "setup")

\* C5 as stated: every instance the host constructs receives setup exactly
\* once before any update, receives teardown when another module is
\* activated or when the application closes, and no update after teardown.
C5_LifecycleWithClose ==
    /\ LifecycleOrder
    /\ TornWhenReplaced
    /\ closed => \A i \in DOMAIN mods : mods[i].state = "torn"

\* C5 amended: every instance the host constructs receives setup exactly
\* once before any update and no update after its teardown; it receives
\* teardown when activate_module is next called; closing the application
\* calls no teardown, the instance active at that moment stays set up.
C5_Lifecycle ==
    /\ LifecycleOrder
    /\ TornWhenReplaced
    /\ (closed /\ active # 0) =>
          (mods[active].state = "setup" /\ mods[active].teardowns = 0)

C5_Witness ==
    /\ closed /\ active = 2 /\ mods[1].state = "torn"
    /\ Len(updLog) > 0 /\ mods[2].state = "setup"

\* the mapping that holds every parameter of a schema at its default
DefaultParams(sch) ==
    [n \in {sch[k].name : k \in DOMAIN sch} |-> SpecOf(sch, n).default]
\* the params of the update call logged at position u
UpdateAt(u) == updLog[Cardinality({i \in 1..u : log[i] = "update"})]
SetupIdx == CHOOSE i \in DOMAIN log : log[i] = "setup"

\* C3: during activate_module of a registered id, after the new module's
\* setup no render happens until update has been called with the panel's
\* current mapping, and that mapping holds every parameter of the schema at
\* its ParamSpec default.
C3_PrimedBeforeRender ==
    Has("setup") =>
        /\ schema = LinearTransformSchema =>
             \A r \in DOMAIN log :
                (r > SetupIdx /\ log[r] = "render") =>
                    \E u \in (SetupIdx + 1)..(r - 1) :
                       /\ log[u] = "update"
                       /\ UpdateAt(u) = DefaultParams(LinearTransformSchema)
        /\ schema # LinearTransformSchema =>
             \A r \in DOMAIN log : r > SetupIdx => log[r] # "render"
        /\ pc = "idle" =>
             /\ log[Len(log)] = "render"
             /\ CurrentParams(schema, widgets).params = DefaultParams(schema)

C3_Witness ==
    /\ pc = "idle" /\ Has("setup") /\ Len(mods) = 2 /\ Count("update") = 2
    /\ mods[1].retired # {}

\* C6: every value-change signal of a connected control, also while
\* build_from_schema writes the defaults, results in exactly one paramsChanged
\* notification; each notified mapping has one entry per ParamSpec of the
\* schema, a matrix2x2 entry being 2 rows of 2 columns.
C6_EverySignalNotifies ==
    /\ \A i \in DOMAIN log :
          log[i] = "signal" => (i < Len(log) /\ log[i + 1] = "notify")
    /\ \A k \in DOMAIN ntfLog :
          /\ DOMAIN ntfLog[k] = {schema[j].name : j \in DOMAIN schema}
          /\ \A j \in DOMAIN schema :
                schema[j].kind = "matrix2x2" =>
                   /\ Len(ntfLog[k][schema[j].name]) = 2
                   /\ \A r \in 1..2 : Len(ntfLog[k][schema[j].name][r]) = 2

\* C8: after an update with grid_n = n the module holds exactly 2n grid
\* actors and 2n base lines of n points, the mesh actors of the viewer other
\* than the circle and the eigenvectors are exactly those 2n actors, and no
\* grid actor that a rebuild replaced remains in the module or the viewer.
C8_GridRebuilt ==
    (active # 0 /\ Len(updLog) > 0 /\ mods[active].state = "setup") =>
        LET m == mods[active]
            n == updLog[Len(updLog)].grid_n
        IN /\ Len(m.grid) = 2 * n
           /\ Cardinality(Range(m.grid)) = 2 * n
           /\ Len(m.bgrid) = 2 * n
           /\ \A k \in DOMAIN m.bgrid : Len(m.bgrid[k]) = n
           /\ DOMAIN meshes \ {m.circle, m.eig1, m.eig2} = Range(m.grid)
           /\ m.retired \cap DOMAIN meshes = {}
           /\ m.retired \cap Range(m.grid) = {}

C8_Witness ==
    /\ active # 0 /\ Len(updLog) > 0 /\ mods[active].state = "setup"
    /\ updLog[Len(updLog)].grid_n = 12
    /\ Len(mods[active].grid) = 24
    /\ Cardinality(mods[active].retired) = 28

Controls(spec) ==
    IF spec.kind = "matrix2x2"
    THEN {widgets[spec.name][k] : k \in 1..4}
    ELSE {widgets[spec.name]}
Applied(spec) ==
    \A c \in Controls(spec) :
        /\ ~IsNone(spec.min) => c.min = Val(spec.min)
        /\ ~IsNone(spec.max) => c.max = Val(spec.max)
        /\ ~IsNone(spec.step) => c.step = Val(spec.step)

\* C7: for every ParamSpec of kind float, int or matrix2x2, each control
\* build_from_schema creates has minimum, maximum and step equal to the
\* spec's min, max and step, for every one of them the spec gives (values
\* that include 0 and negative numbers).
C7_BoundsApplied ==
    \A j \in DOMAIN schema :
        (schema[j].kind \in {"float", "int", "matrix2x2"}
            /\ schema[j].name \in DOMAIN widgets) => Applied(schema[j])

LastParams == updLog[Len(updLog)]
Updated == active # 0 /\ Len(updLog) > 0 /\ mods[active].state = "setup"
IsRotation(A) ==
    /\ A[1][1] = A[2][2]
    /\ A[1][2] = -A[2][1]
    /\ A[1][1] * A[1][1] + A[2][1] * A[2][1] = FP
EigenActors == {a \in {mods[active].eig1, mods[active].eig2} : a # 0}
NoEigenDrawn ==
    /\ Disc(Interp(LastParams.A, LastParams.animate_t)) < 0
    /\ EigenActors = {}
    /\ DOMAIN meshes = {mods[active].circle} \cup Range(mods[active].grid)

\* C9 as stated: after an update with show_eigen, animate_t = 1 and A any
\* rotation matrix, the eigenvalues of A_t are non-real and the module holds
\* no eigenvector actor.
C9_AnyRotationNoEigen ==
    (Updated /\ LastParams.show_eigen /\ LastParams.animate_t = Scale
        /\ IsRotation(LastParams.A)) => NoEigenDrawn

\* C9 amended: after an update with show_eigen, animate_t = 1 and A a rotation
\* matrix other than I and -I (sin of the angle not 0), the eigenvalues of A_t
\* are non-real, eig1 and eig2 are both empty and the viewer holds no
\* eigenvector actor.
C9_ProperRotationNoEigen ==
    (Updated /\ LastParams.show_eigen /\ LastParams.animate_t = Scale
        /\ IsRotation(LastParams.A) /\ LastParams.A[2][1] # 0) => NoEigenDrawn

C9_Witness ==
    /\ Updated /\ pc = "idle" /\ edits = 2
    /\ LastParams.show_eigen /\ LastParams.animate_t = Scale
    /\ LastParams.A = Rot(6, 8)
    /\ EigenActors = {}

\* C10: after an update with animate_t = 0 (any A of the schema's range), or
\* with A the identity and animate_t = 1, every point of the circle actor and
\* of every grid line actor equals the corresponding base point, with z = 0.
C10_BaseGeometry ==
    (Updated /\ (LastParams.animate_t = 0
                   \/ (LastParams.A = << <<Scale, 0>>, <<0, Scale>> >>
                         /\ LastParams.animate_t = Scale))) =>
        LET m == mods[active]
        IN /\ meshes[m.circle] = m.bcircle
           /\ \A k \in DOMAIN m.grid : meshes[m.grid[k]] = m.bgrid[k]
           /\ \A a \in {m.circle} \cup Range(m.grid) :
                 \A j \in DOMAIN meshes[a] : meshes[a][j][3] = 0

C10_Witness ==
    /\ Updated /\ pc = "idle" /\ edits = 2
    /\ LastParams.animate_t = 0
    /\ LastParams.A = << <<5 * Scale, -5 * Scale>>, <<-5 * Scale, 5 * Scale>> >>
    /\ LastParams.grid_n = 4
    /\ meshes[mods[active].circle] = UnitCircle

\* The eigenvector actors the viewer shows: the actors some
\* _update_eigenvectors call of the active module added and the plotter
\* still holds.
EigenInViewer ==
    (Range(mods[active].eigDrawn) \cup mods[active].eigRetired)
        \cap DOMAIN meshes

\* C11: after any sequence of updates the viewer shows at most two
\* eigenvector actors and they are exactly the ones the most recent update
\* created: every eigenvector actor of an earlier update is removed, the first
\* drawn is stored as eig1 and the second as eig2 (an unused key holds no
\* actor); when the most recent update had show_eigen false the viewer shows
\* no eigenvector actor.
C11_EigenActorsCurrent ==
    Updated =>
        LET m == mods[active]
            d == m.eigDrawn
        IN /\ Cardinality(EigenInViewer) <= 2
           /\ EigenInViewer = Range(d)
           /\ m.eigRetired \cap DOMAIN meshes = {}
           /\ Len(d) <= 2
           /\ m.eig1 = (IF Len(d) >= 1 THEN d[1] ELSE 0)
           /\ m.eig2 = (IF Len(d) >= 2 THEN d[2] ELSE 0)
           /\ Len(d) = 2 => d[1] # d[2]
           /\ ~LastParams.show_eigen => EigenInViewer = {}

\* Several updates in a row: earlier updates drew eigenvectors, all of them
\* removed since, and the latest update drew two of its own.
C11_Witness ==
    /\ Updated /\ pc = "idle" /\ edits = 2
    /\ LastParams.show_eigen
    /\ Len(mods[active].eigDrawn) = 2
    /\ Cardinality(mods[active].eigRetired) >= 4
    /\ mods[active].eigRetired \cap DOMAIN meshes = {}
    /\ Range(mods[active].eigDrawn) \subseteq DOMAIN meshes

=============================================================================
